---- MODULE Spec2Model ----
(***************************************************************************)
(* ShopHub storefront: the session-scoped cart, the order placer and the   *)
(* checkout handler, as the state machine their code implements.           *)
(*                                                                         *)
(* The hosted store is the five tables of the migration; the model keeps   *)
(* cart_items, orders, order_items and the id and price of products.       *)
(* Every store round trip is one step, so the steps of concurrent calls    *)
(* interleave exactly where the code awaits.  A store call either succeeds *)
(* or returns an error (the `ok` parameter of the step); a behaviour holds *)
(* at most one such error.  The store's row-level policies are taken to    *)
(* let every call of a client reach the rows its filters name.  Money is   *)
(* counted in cents of the numeric(10, 2) columns.                         *)
(***************************************************************************)
EXTENDS Integers, FiniteSets, Sequences, TLC

\* Two browsers (each with its own localStorage) and two catalogue products.
Clients == {"c1", "c2"}
Products == {"p1", "p2"}
\* Concurrent calls in flight at once.
Tasks == {1, 2}
\* Quantities passed to addToCart and to updateCartItemQuantity.
AddQtys == {1, 2}
UpdQtys == {-1, 0, 2}
\* Quantities a caller of the cart module may pass to addToCart (any integer).
AnyQtys == AddQtys \cup {-1, 0}
\* Catalogue prices, in cents.
Prices == {5, 10}
\* Calls started in one behaviour: of the whole
\* program, of the cart manager alone, of the checkout flow, of the
\* serial addToCart calls, of the checkout flow under product deletes, of
\* the order placer, of the UI's handlers, and of the concurrent addToCart
\* calls.
MaxOps == 2
MaxCartOps == 3
MaxCheckoutOps == 3
MaxSerialOps == 4
MaxCatalogOps == 3
MaxOrderOps == 3
MaxUiOps == 3
MaxAddOps == 3

\* localStorage.getItem('session_id') of an empty storage (null).
NoId == 0

\* Null of a column, and the value of a key the caller left out.
Null == "null"

\* Values of a field of the customer data: a text, the empty string, missing.
FieldValues == {"Ann", "", Null}

\* The customer data createOrder may be called with: complete, or with one
\* field empty or missing.
OrderDatas ==
  {d \in [customer_name : FieldValues, customer_email : FieldValues,
          shipping_address : FieldValues] :
     Cardinality({f \in DOMAIN d : d[f] # "Ann"}) <= 1}

\* The data the checkout form submits: each of its inputs is `required`.
formData ==
  [customer_name |-> "Ann", customer_email |-> "Ann", shipping_address |-> "Ann"]

VARIABLES
  storage,      \* localStorage['session_id'] of each client, or NoId
  nextSid,      \* the next value crypto.randomUUID() yields (always fresh)
  products,     \* the ids of the rows of table products
  price,        \* products.price
  cart_items,   \* table cart_items
  nextCartId,   \* gen_random_uuid() of cart_items.id
  orders,       \* table orders
  order_items,  \* table order_items
  nextOrderId,  \* gen_random_uuid() of orders.id; also the order's created_at
  cartItems,    \* App's React state cartItems of each client
  app,          \* App of each client: unmounted, loading (its mount effect's
                \* loadData in flight, with the answer once the store gave
                \* it), or ready (loading = false, the handlers usable)
  calls,        \* the calls in flight, and the settled result of the last one
  left,         \* calls that may still be started
  faulted,      \* a store call has returned an error
  resolved,     \* history: the session ids each client's calls resolved
  created,      \* history: the orders createOrder returned to each client
  hist,         \* history of the serial specification: per (client, product),
                \* how many addToCart calls completed and the sum of their q
  cascaded      \* history: the ids of the cart rows a product's delete removed

vars == <<storage, nextSid, products, price, cart_items, nextCartId, orders,
          order_items, nextOrderId, cartItems, app, calls, left, faulted,
          resolved, created, hist, cascaded>>

store == <<products, price, cart_items, nextCartId, orders, order_items,
           nextOrderId, cascaded>>

----------------------------------------------------------------------------
\* Session identity

\* crypto.randomUUID(): a value never produced before.
randomUUID == nextSid

\* orders module: localStorage.getItem('session_id') || crypto.randomUUID().
\* Nothing is written back to the storage.
ordersGetSessionId(c) ==
  IF storage[c] # NoId THEN storage[c] ELSE randomUUID

\* cart module: the generated id is persisted with localStorage.setItem.
cartGetSessionId(c) ==
  IF storage[c] # NoId THEN storage[c] ELSE randomUUID

cartStorageAfter(c) == [storage EXCEPT ![c] = cartGetSessionId(c)]

\* randomUUID() was called iff the storage held no id.
uuidAfter(c) == IF storage[c] = NoId THEN nextSid + 1 ELSE nextSid

----------------------------------------------------------------------------
\* Store operations on cart_items

\* .select('*').eq('session_id', sid).eq('product_id', p)
cartRowsFor(sid, p) ==
  {r \in cart_items : r.session_id = sid /\ r.product_id = p}

\* Faulty variant: .single(), an error unless exactly one row matches.
singleError(rows, ok) == ~ok \/ Cardinality(rows) # 1

\* .maybeSingle(): the row when exactly one matches; null data when none
\* matches, and null data with an error when several match or the call fails.
maybeSingle(rows, ok) ==
  IF ok /\ Cardinality(rows) = 1 THEN rows ELSE {}

maybeSingleError(rows, ok) == ~ok \/ Cardinality(rows) > 1

\* Faulty variant: the update adds q to the row's quantity.
updateQuantityAdd(id, q) ==
  {IF r.id = id THEN [r EXCEPT !.quantity = @ + q] ELSE r : r \in cart_items}

\* .update({ quantity }).eq('id', id)
updateQuantity(id, q) ==
  {IF r.id = id THEN [r EXCEPT !.quantity = q] ELSE r : r \in cart_items}

\* .insert({ session_id, product_id, quantity })
insertCartItem(sid, p, q) ==
  cart_items \cup
    {[id |-> nextCartId, session_id |-> sid, product_id |-> p, quantity |-> q]}

\* cart_items.product_id REFERENCES products(id): an insert naming a product
\* that has no row is rejected by the store.
productExists(p) == p \in products

\* .delete().eq('id', id)
deleteById(id) == {r \in cart_items : r.id # id}

\* Faulty variant: the delete without its session filter.
deleteEverySession(sid) == {}

\* .delete().eq('session_id', sid)
deleteBySession(sid) == {r \in cart_items : r.session_id # sid}

\* Faulty variant: the quantity is overwritten, not accumulated.
addQuantityOverwrite(existingQty, q) == q

\* addToCart's accumulated quantity: existingItem.quantity + quantity
addQuantity(existingQty, q) == existingQty + q

\* Faulty variant: only a negative quantity removes.
isRemovalStrict(q) == q < 0

\* updateCartItemQuantity's test: quantity <= 0 delegates to removeFromCart
isRemoval(q) == q <= 0

\* getCartItems: the session's rows, each joined with its product
\* (product:products(*)); the model keeps the joined price.
getCartItems(sid) ==
  {[id |-> r.id, product_id |-> r.product_id, quantity |-> r.quantity,
    price |-> price[r.product_id]] : r \in {x \in cart_items : x.session_id = sid}}

----------------------------------------------------------------------------
\* Order placement

\* Faulty variant: the price is read from the catalogue at order time.
itemPriceLive(item) == price[item.product_id]

\* item.product?.price || 0, the price joined to the item when the cart was read
itemPrice(item) == item.price

\* cartItems.reduce((sum, item) => sum + price * item.quantity, 0)
RECURSIVE totalAmount(_)
totalAmount(items) ==
  IF items = {} THEN 0
  ELSE LET i == CHOOSE x \in items : TRUE
       IN  itemPrice(i) * i.quantity + totalAmount(items \ {i})

\* Faulty variant: every order item is written with quantity 1.
orderItemsUnitQuantity(o, items) ==
  {[order_id |-> o, line |-> i.id, product_id |-> i.product_id,
    quantity |-> 1, price |-> itemPrice(i)] : i \in items}

\* cartItems.map(item => ({ order_id, product_id, quantity, price })); `line`
\* stands for the generated id of the order_items row, one per cart item.
orderItemsOf(o, items) ==
  {[order_id |-> o, line |-> i.id, product_id |-> i.product_id,
    quantity |-> i.quantity, price |-> itemPrice(i)] : i \in items}

\* Faulty variant: the header is written as an order already paid.
orderRowPaid(sid, total, info) ==
  [id |-> nextOrderId, session_id |-> sid, total_amount |-> total,
   status |-> "paid", created_at |-> nextOrderId,
   customer_name |-> info.customer_name,
   customer_email |-> info.customer_email,
   shipping_address |-> info.shipping_address]

\* The row the header insert writes.
orderRow(sid, total, info) ==
  [id |-> nextOrderId, session_id |-> sid, total_amount |-> total,
   status |-> "pending", created_at |-> nextOrderId,
   customer_name |-> info.customer_name,
   customer_email |-> info.customer_email,
   shipping_address |-> info.shipping_address]

\* orders.customer_email, customer_name, shipping_address: text NOT NULL
notNullViolated(info) ==
  Null \in {info.customer_name, info.customer_email, info.shipping_address}

\* .order('created_at', { ascending: false })
RECURSIVE newestFirst(_)
newestFirst(S) ==
  IF S = {} THEN <<>>
  ELSE LET o == CHOOSE x \in S : \A y \in S : y.created_at <= x.created_at
       IN  <<o.id>> \o newestFirst(S \ {o})

\* getOrders: .eq('session_id', sid), newest first (the ids of the rows)
getOrdersRows(sid) == newestFirst({o \in orders : o.session_id = sid})

----------------------------------------------------------------------------
\* Calls

\* A slot of `calls`: a call in flight with its locals, or (pc = "done") what
\* the last call settled with.  err: a store call of it returned an error;
\* changed: a step of it changed cart_items; ui: it was made by a handler of
\* App, which goes on after it; alone (of a createOrder call): no other call
\* of its client, App's loadData included, has been in flight since it
\* started.
Idle ==
  [op |-> "none", pc |-> "idle", ui |-> FALSE, client |-> "c1", sid |-> NoId,
   csid |-> NoId,
   product |-> "p1", quantity |-> 0, item |-> 0, existingId |-> 0,
   existingQty |-> 0, items |-> {}, total |-> 0, order |-> 0, err |-> FALSE,
   failedAt |-> "none", changed |-> FALSE, outcome |-> "none",
   alert |-> "none", result |-> <<>>, mine |-> {}, info |-> formData,
   alone |-> TRUE]

Free(t) == calls[t].pc \in {"idle", "done"}

\* A new call takes the lowest free slot (the slots are interchangeable).
CanStart(t) ==
  /\ Free(t)
  /\ \A u \in Tasks : u < t => ~Free(u)
  /\ left > 0

Begin(op, c) == [Idle EXCEPT !.op = op, !.client = c]

\* loadData of App of client c is in flight.
loading(c) == app[c].phase \in {"loading", "answered"}

\* A call of client c starts: a createOrder call of that client that is in
\* flight is no longer alone.
Disturbed(c) ==
  [u \in Tasks |->
     IF calls[u].op = "createOrder" /\ ~Free(u) /\ calls[u].client = c
     THEN [calls[u] EXCEPT !.alone = FALSE]
     ELSE calls[u]]

\* Slot t takes the call k.
Started(t, k) == [Disturbed(k.client) EXCEPT ![t] = k]

\* A call whose one request is sent to the store and not yet executed.
Sent(op, c) == [Begin(op, c) EXCEPT !.pc = "store"]

\* What a call settles with when the store has answered its one request.
Settled(k, ok, changes) ==
  [k EXCEPT !.pc = "done", !.err = ~ok,
     !.failedAt = IF ok THEN "none" ELSE "store",
     !.outcome = IF ok THEN "returned" ELSE "threw",
     !.changed = changes]

\* The store answers a call with an error at most once in a behaviour.
Answer(ok) ==
  /\ ok \/ ~faulted
  /\ faulted' = (faulted \/ ~ok)

\* The clients that open the shop in a browser, where one client is enough.
Shoppers == {"c1"}

\* App before its mount effect has run.
Unmounted ==
  [phase |-> "unmounted", rows |-> {}, ok |-> TRUE, isCheckoutOpen |-> FALSE]

\* App once loadData has finished (setLoading(false)): the page is rendered.
Ready ==
  [phase |-> "ready", rows |-> {}, ok |-> TRUE, isCheckoutOpen |-> FALSE]

\* `if (loading) return <spinner>`: the handlers of client c can be used.
ready(c) == app[c].phase = "ready"

\* The state when the clients' storages are empty and the store holds only
\* the catalogue; n calls may be started.
Start(n) ==
  /\ storage = [c \in Clients |-> NoId]
  /\ nextSid = 1
  /\ products = Products
  /\ price = [p \in Products |-> IF p = "p1" THEN 10 ELSE 5]
  /\ cart_items = {}
  /\ nextCartId = 1
  /\ orders = {}
  /\ order_items = {}
  /\ nextOrderId = 1
  /\ cartItems = [c \in Clients |-> {}]
  /\ app = [c \in Clients |-> Unmounted]
  /\ calls = [t \in Tasks |-> Idle]
  /\ left = n
  /\ faulted = FALSE
  /\ resolved = [c \in Clients |-> {}]
  /\ created = [c \in Clients |-> {}]
  /\ hist = [c \in Clients |-> [p \in Products |-> [n |-> 0, sum |-> 0]]]
  /\ cascaded = {}

\* The cart module's getSessionId() at the head of a call of client c.
CartResolve(c) ==
  /\ storage' = cartStorageAfter(c)
  /\ nextSid' = uuidAfter(c)
  /\ resolved' = [resolved EXCEPT ![c] = @ \cup {cartGetSessionId(c)}]

\* The orders module's getSessionId() at the head of a call of client c.
OrdersResolve(c) ==
  /\ storage' = storage
  /\ nextSid' = uuidAfter(c)
  /\ resolved' = [resolved EXCEPT ![c] = @ \cup {ordersGetSessionId(c)}]

----------------------------------------------------------------------------
\* Cart manager

\* addToCart, up to its first await: the session id is resolved (and
\* persisted) and the lookup is sent.
addToCart(t, c, p, q) ==
  /\ CanStart(t)
  /\ calls' = Started(t,
       [Begin("addToCart", c) EXCEPT !.pc = "lookup", !.sid = cartGetSessionId(c),
          !.product = p, !.quantity = q])
  /\ CartResolve(c)
  /\ left' = left - 1
  /\ UNCHANGED <<app, store, cartItems, faulted, created, hist>>

\* handleAddToCart(productId): addToCart(productId, 1), then the refresh of
\* the UI's cart.
handleAddToCart(t, c, p) ==
  /\ ready(c)
  /\ CanStart(t)
  /\ calls' = Started(t,
       [Begin("addToCart", c) EXCEPT !.pc = "lookup", !.ui = TRUE,
          !.sid = cartGetSessionId(c), !.product = p, !.quantity = 1])
  /\ CartResolve(c)
  /\ left' = left - 1
  /\ UNCHANGED <<app, store, cartItems, faulted, created, hist>>

\* addToCart's lookup of the existing row; the error of the lookup is not read.
addToCartLookup(t, ok) ==
  /\ calls[t].op = "addToCart" /\ calls[t].pc = "lookup"
  /\ Answer(ok)
  /\ LET k == calls[t]
         rows == cartRowsFor(k.sid, k.product)
         data == maybeSingle(rows, ok)
         row == CHOOSE r \in data : TRUE
     IN  calls' = [calls EXCEPT ![t] =
           [k EXCEPT !.pc = "write",
              !.existingId = IF data # {} THEN row.id ELSE 0,
              !.existingQty = IF data # {} THEN row.quantity ELSE 0,
              !.err = maybeSingleError(rows, ok),
              !.failedAt = IF maybeSingleError(rows, ok) THEN "lookup" ELSE "none"]]
  /\ UNCHANGED <<app, storage, nextSid, store, cartItems, left, resolved,
                 created, hist>>

\* addToCart's update of the found row, or insert of a new one (rejected by
\* the store when the product has no row).  Called by
\* handleAddToCart, a returning addToCart is followed by getCartItems(), and a
\* throwing one by the alert 'Failed to add item to cart'.
addToCartStore(t, ok) ==
  /\ calls[t].op = "addToCart" /\ calls[t].pc = "write"
  /\ Answer(ok)
  /\ LET k == calls[t]
         found == k.existingId # 0
         after == IF found
                  THEN updateQuantity(k.existingId, addQuantity(k.existingQty, k.quantity))
                  ELSE insertCartItem(k.sid, k.product, k.quantity)
         end == [Begin("addToCart", k.client) EXCEPT !.pc = "done", !.ui = k.ui]
     IN  IF ok /\ (found \/ productExists(k.product))
         THEN /\ cart_items' = after
              /\ nextCartId' = IF found THEN nextCartId ELSE nextCartId + 1
              /\ calls' = [calls EXCEPT ![t] =
                   [end EXCEPT !.pc = IF k.ui THEN "refresh" ELSE "done",
                      !.outcome = "returned", !.err = k.err,
                      !.failedAt = k.failedAt, !.changed = (after # cart_items)]]
         ELSE /\ UNCHANGED <<cart_items, nextCartId>>
              /\ calls' = [calls EXCEPT ![t] =
                   [end EXCEPT !.outcome = "threw", !.err = TRUE, !.failedAt = "write",
                      !.alert = IF k.ui THEN "failed" ELSE "none"]]
  /\ UNCHANGED <<app, products, cascaded, storage, nextSid, price, orders,
                 order_items, nextOrderId, cartItems, left, resolved,
                 created>>

addToCartWrite(t, ok) == addToCartStore(t, ok) /\ UNCHANGED hist

\* The ids of the rows cart_items holds.
CartIds == {r.id : r \in cart_items}

\* What a handler's catch block shows the user: handleAddToCart alerts,
\* handleUpdateQuantity and handleRemoveItem only log to the console.
catchAlert(op) == IF op = "addToCart" THEN "failed" ELSE "none"

\* The store has answered the one request of a cart call: the call returns or
\* throws; in a handler, the refresh of the UI's cart follows its return and
\* the catch block its throw.
CartSettled(k, ok, changes) ==
  IF k.ui
  THEN [Settled(k, ok, changes) EXCEPT
          !.pc = IF ok THEN "refresh" ELSE "done",
          !.alert = IF ok THEN "none" ELSE catchAlert(k.op)]
  ELSE Settled(k, ok, changes)

\* updateCartItemQuantity(id, q) is called: one request is sent, a delete
\* (through removeFromCart) when q <= 0 and an update otherwise.
updateCartItemQuantityCall(t, c, id, q, ui) ==
  /\ CanStart(t)
  /\ calls' = Started(t,
       [Sent("updateCartItemQuantity", c) EXCEPT !.ui = ui, !.item = id,
          !.quantity = q])
  /\ left' = left - 1
  /\ UNCHANGED <<app, storage, nextSid, store, cartItems, faulted, resolved,
                 created, hist>>

\* updateCartItemQuantity(id, q) called directly.
updateCartItemQuantity(t, c, id, q) ==
  updateCartItemQuantityCall(t, c, id, q, FALSE)

\* The store executes the request of updateCartItemQuantity.
updateCartItemQuantityStore(t, ok) ==
  /\ calls[t].op = "updateCartItemQuantity" /\ calls[t].pc = "store"
  /\ Answer(ok)
  /\ LET k == calls[t]
         after == IF isRemoval(k.quantity) THEN deleteById(k.item)
                  ELSE updateQuantity(k.item, k.quantity)
     IN  /\ cart_items' = IF ok THEN after ELSE cart_items
         /\ calls' = [calls EXCEPT ![t] =
              CartSettled(k, ok, ok /\ after # cart_items)]
  /\ UNCHANGED <<app, products, cascaded, storage, nextSid, price, nextCartId,
                 orders, order_items, nextOrderId, cartItems, left, resolved,
                 created, hist>>

\* removeFromCart(id) is called: one delete by id is sent.
removeFromCartCall(t, c, id, ui) ==
  /\ CanStart(t)
  /\ calls' = Started(t,
       [Sent("removeFromCart", c) EXCEPT !.ui = ui, !.item = id])
  /\ left' = left - 1
  /\ UNCHANGED <<app, storage, nextSid, store, cartItems, faulted, resolved,
                 created, hist>>

\* removeFromCart(id) called directly.
removeFromCart(t, c, id) == removeFromCartCall(t, c, id, FALSE)

\* The store executes the delete of removeFromCart.
removeFromCartStore(t, ok) ==
  /\ calls[t].op = "removeFromCart" /\ calls[t].pc = "store"
  /\ Answer(ok)
  /\ LET k == calls[t]
     IN  /\ cart_items' = IF ok THEN deleteById(k.item) ELSE cart_items
         /\ calls' = [calls EXCEPT ![t] =
              CartSettled(k, ok, ok /\ deleteById(k.item) # cart_items)]
  /\ UNCHANGED <<app, products, cascaded, storage, nextSid, price, nextCartId,
                 orders, order_items, nextOrderId, cartItems, left, resolved,
                 created, hist>>

\* clearCart() is called: the session id is resolved, one delete by session
\* id is sent.
clearCart(t, c) ==
  /\ CanStart(t)
  /\ CartResolve(c)
  /\ LET sid == cartGetSessionId(c)
     IN  calls' = Started(t,
           [Sent("clearCart", c) EXCEPT !.sid = sid, !.csid = sid])
  /\ left' = left - 1
  /\ UNCHANGED <<app, store, cartItems, faulted, created, hist>>

\* The store executes the delete of clearCart().
clearCartStore(t, ok) ==
  /\ calls[t].op = "clearCart" /\ calls[t].pc = "store"
  /\ Answer(ok)
  /\ LET k == calls[t]
     IN  /\ cart_items' = IF ok THEN deleteBySession(k.csid) ELSE cart_items
         /\ calls' = [calls EXCEPT ![t] =
              Settled(k, ok, ok /\ deleteBySession(k.csid) # cart_items)]
  /\ UNCHANGED <<app, products, cascaded, storage, nextSid, price, nextCartId,
                 orders, order_items, nextOrderId, cartItems, left, resolved,
                 created, hist>>

\* The quantities the cart panel passes for a line it shows: its minus and
\* plus buttons call onUpdateQuantity(item.id, item.quantity -+ 1).
ButtonQtys(i) == {i.quantity - 1, i.quantity + 1}

\* handleUpdateQuantity(cartItemId, quantity), clicked on a line i of the
\* cart the UI shows: updateCartItemQuantity is called with the id and the
\* quantity of that moment.  (The cart panel can be opened at any time.)
handleUpdateQuantity(t, c, i, q) ==
  /\ ready(c)
  /\ i \in cartItems[c] /\ q \in ButtonQtys(i)
  /\ updateCartItemQuantityCall(t, c, i.id, q, TRUE)

\* handleRemoveItem(cartItemId), clicked on a line i of the cart the UI
\* shows: removeFromCart is called with the id of that line.
handleRemoveItem(t, c, i) ==
  /\ ready(c)
  /\ i \in cartItems[c]
  /\ removeFromCartCall(t, c, i.id, TRUE)

\* A handler's refresh, the store's side: getCartItems() is answered with the
\* rows held at this moment.  When it fails the handler's catch block runs
\* and the UI keeps what it shows.
refreshQuery(t, ok) ==
  /\ calls[t].ui /\ calls[t].pc = "refresh"
  /\ Answer(ok)
  /\ LET k == calls[t]
     IN  /\ CartResolve(k.client)
         /\ calls' = [calls EXCEPT ![t] =
              IF ok
              THEN [k EXCEPT !.pc = "deliver",
                      !.items = getCartItems(cartGetSessionId(k.client))]
              ELSE [k EXCEPT !.pc = "done", !.failedAt = "refresh",
                      !.alert = catchAlert(k.op)]]
  /\ UNCHANGED <<app, store, cartItems, left, created, hist>>

\* A handler's refresh, the client's side: the answer arrives and
\* setCartItems(updatedCart) puts it in the UI.
refreshDeliver(t) ==
  /\ calls[t].ui /\ calls[t].pc = "deliver"
  /\ LET k == calls[t]
     IN  /\ cartItems' = [cartItems EXCEPT ![k.client] = k.items]
         /\ calls' = [calls EXCEPT ![t] = [k EXCEPT !.pc = "done", !.items = {}]]
  /\ UNCHANGED <<app, storage, nextSid, store, left, faulted, resolved,
                 created, hist>>

\* getCartItems() is called by itself: the session id is resolved (and
\* persisted), one query is sent.
getCartItemsCall(t, c) ==
  /\ CanStart(t)
  /\ CartResolve(c)
  /\ calls' = Started(t,
       [Sent("getCartItems", c) EXCEPT !.sid = cartGetSessionId(c)])
  /\ left' = left - 1
  /\ UNCHANGED <<app, store, cartItems, faulted, created, hist>>

\* The store answers the query of getCartItems(); items: the rows it
\* returns.
getCartItemsStore(t, ok) ==
  /\ calls[t].op = "getCartItems" /\ calls[t].pc = "store"
  /\ Answer(ok)
  /\ LET k == calls[t]
     IN  calls' = [calls EXCEPT ![t] =
           [Settled(k, ok, FALSE) EXCEPT
              !.items = IF ok THEN getCartItems(k.sid) ELSE {}]]
  /\ UNCHANGED <<app, storage, nextSid, store, cartItems, left, resolved,
                 created, hist>>

\* App is mounted: its effect calls loadData(), whose getCartItems() resolves
\* (and persists) the session id and sends its query; loading is true.
mount(c) ==
  /\ app[c].phase = "unmounted"
  /\ CartResolve(c)
  /\ app' = [app EXCEPT ![c].phase = "loading"]
  /\ calls' = Disturbed(c)
  /\ UNCHANGED <<store, cartItems, left, faulted, created, hist>>

\* The store answers the queries of loadData (the Promise.all of
\* getCategories() and getCartItems()): with the session's rows, or with an
\* error.
loadDataQuery(c, ok) ==
  /\ app[c].phase = "loading"
  /\ Answer(ok)
  /\ app' = [app EXCEPT ![c] =
       [phase |-> "answered", ok |-> ok, isCheckoutOpen |-> FALSE,
        rows |-> IF ok THEN getCartItems(storage[c]) ELSE {}]]
  /\ UNCHANGED <<storage, nextSid, store, cartItems, calls, left, resolved,
                 created, hist>>

\* The answer reaches loadData: setCartItems(cartData), or the catch block
\* when a query failed; finally setLoading(false).
loadDataDeliver(c) ==
  /\ app[c].phase = "answered"
  /\ cartItems' = IF app[c].ok THEN [cartItems EXCEPT ![c] = app[c].rows]
                  ELSE cartItems
  /\ app' = [app EXCEPT ![c] = Ready]
  /\ UNCHANGED <<storage, nextSid, store, calls, left, faulted, resolved,
                 created, hist>>

\* The catalogue price of a product changes (outside this application).
setPrice(p, v) ==
  /\ v # price[p]
  /\ price' = [price EXCEPT ![p] = v]
  /\ UNCHANGED <<app, products, cascaded, left, storage, nextSid, cart_items,
                 nextCartId, orders, order_items, nextOrderId, cartItems,
                 calls, faulted, resolved, created, hist>>

\* Faulty variant: the order items of the product are deleted with it.
cascadeOrderItems(p) == {oi \in order_items : oi.product_id # p}

\* order_items.product_id ... ON DELETE SET NULL
setNullOrderItems(p) ==
  {IF oi.product_id = p THEN [oi EXCEPT !.product_id = Null] ELSE oi :
     oi \in order_items}

\* cart_items.product_id ... ON DELETE CASCADE
cascadeCartItems(p) == {r \in cart_items : r.product_id # p}

\* A row of products is deleted (outside this application); the store applies
\* the ON DELETE clauses of the columns that reference it.
deleteProduct(p) ==
  /\ p \in products
  /\ products' = products \ {p}
  /\ cart_items' = cascadeCartItems(p)
  /\ order_items' = setNullOrderItems(p)
  /\ cascaded' = cascaded \cup {r.id : r \in cart_items \ cascadeCartItems(p)}
  /\ UNCHANGED <<app, left, storage, nextSid, price, nextCartId, orders,
                 nextOrderId, cartItems, calls, faulted, resolved, created,
                 hist>>

----------------------------------------------------------------------------
\* Order placer

\* getOrders() is called: the session id is resolved, one query is sent.
\* mine: the orders createOrder had returned to this client when the call was
\* made.
getOrders(t, c) ==
  /\ CanStart(t)
  /\ OrdersResolve(c)
  /\ calls' = Started(t,
       [Sent("getOrders", c) EXCEPT !.sid = ordersGetSessionId(c),
          !.mine = created[c]])
  /\ left' = left - 1
  /\ UNCHANGED <<app, store, cartItems, faulted, created, hist>>

\* The store answers the query of getOrders().
getOrdersStore(t, ok) ==
  /\ calls[t].op = "getOrders" /\ calls[t].pc = "store"
  /\ Answer(ok)
  /\ LET k == calls[t]
     IN  calls' = [calls EXCEPT ![t] =
           [Settled(k, ok, FALSE) EXCEPT
              !.result = IF ok THEN getOrdersRows(k.sid) ELSE <<>>]]
  /\ UNCHANGED <<app, storage, nextSid, store, cartItems, left, resolved,
                 created, hist>>

\* The ids getOrderById is called with: those of the orders, and one that
\* matches no row.
OrderIdArgs == 1 .. nextOrderId

\* getOrderById(orderId) is called: one query with .maybeSingle() is sent.
getOrderById(t, c, id) ==
  /\ CanStart(t)
  /\ calls' = Started(t, [Sent("getOrderById", c) EXCEPT !.item = id])
  /\ left' = left - 1
  /\ UNCHANGED <<app, storage, nextSid, store, cartItems, faulted, resolved,
                 created, hist>>

\* The store answers the query of getOrderById: its error is thrown, else
\* its data returned.  existingId: the id of the matching row, if any; err:
\* the store call itself failed.
getOrderByIdStore(t, ok) ==
  /\ calls[t].op = "getOrderById" /\ calls[t].pc = "store"
  /\ Answer(ok)
  /\ LET k == calls[t]
         rows == {o \in orders : o.id = k.item}
         error == maybeSingleError(rows, ok)
         data == maybeSingle(rows, ok)
     IN  calls' = [calls EXCEPT ![t] =
           [k EXCEPT !.pc = "done",
              !.existingId = IF rows = {} THEN 0 ELSE k.item,
              !.err = ~ok,
              !.failedAt = IF error THEN "store" ELSE "none",
              !.outcome = IF error THEN "threw" ELSE "returned",
              !.result = IF error \/ data = {} THEN <<>> ELSE <<k.item>>]]
  /\ UNCHANGED <<app, storage, nextSid, store, cartItems, left, resolved,
                 created, hist>>

\* createOrder(cartItems, orderData) up to its first await, called with the
\* cart the UI shows.  The session id is resolved, the total computed, the
\* header insert sent.  ui: the call is made by handleCheckout.
createOrderCall(t, c, items, info, ui) ==
  /\ CanStart(t)
  /\ OrdersResolve(c)
  /\ calls' = Started(t,
       [Begin("createOrder", c) EXCEPT !.pc = "header", !.ui = ui,
          !.sid = ordersGetSessionId(c), !.items = items,
          !.total = totalAmount(items), !.info = info,
          !.alone = /\ \A u \in Tasks : Free(u) \/ calls[u].client # c
                    /\ ~loading(c)])
  /\ left' = left - 1
  /\ UNCHANGED <<app, store, cartItems, faulted, created, hist>>

\* The cart panel shows its checkout button when cartItems.length > 0.
checkoutShown(c) == cartItems[c] # {}

\* The carts a caller of createOrder may hold: the one the UI shows, or the
\* rows the store holds for the client's session.
CartArgs(c) == {cartItems[c], getCartItems(storage[c])}

\* createOrder called directly, with any cart and any customer data.
createOrder(t, c, items, info) == createOrderCall(t, c, items, info, FALSE)

\* The checkout button of the cart panel is clicked: the checkout form opens.
\* (The cart panel can be opened at any time.)
onCheckout(c) ==
  /\ ready(c) /\ checkoutShown(c)
  /\ ~app[c].isCheckoutOpen
  /\ app' = [app EXCEPT ![c].isCheckoutOpen = TRUE]
  /\ UNCHANGED <<storage, nextSid, store, cartItems, calls, left, faulted,
                 resolved, created, hist>>

\* The checkout form is closed without being submitted.
onClose(c) ==
  /\ ready(c) /\ app[c].isCheckoutOpen
  /\ app' = [app EXCEPT ![c].isCheckoutOpen = FALSE]
  /\ UNCHANGED <<storage, nextSid, store, cartItems, calls, left, faulted,
                 resolved, created, hist>>

\* handleCheckout, the open checkout form submitted:
\* createOrder(cartItems, orderData) with the cart the UI holds then and the
\* data of the form.
handleCheckout(t, c) ==
  /\ ready(c) /\ app[c].isCheckoutOpen
  /\ createOrderCall(t, c, cartItems[c], formData, TRUE)

\* Faulty variant: the error of the insert is dropped and the call returns.
ThrownDropped(k, at) ==
  [k EXCEPT !.pc = "done", !.err = TRUE, !.failedAt = at,
     !.outcome = "returned"]

\* What createOrder throws; the catch block of handleCheckout alerts
\* 'Failed to place order'.
Thrown(k, at) ==
  [k EXCEPT !.pc = "done", !.err = TRUE, !.failedAt = at, !.outcome = "threw",
     !.alert = IF k.ui THEN "failed" ELSE "none"]

\* The insert of the order header, which the store rejects when a NOT NULL
\* column gets no value.
createOrderHeader(t, ok) ==
  /\ calls[t].op = "createOrder" /\ calls[t].pc = "header"
  /\ Answer(ok)
  /\ LET k == [calls[t] EXCEPT !.info = formData]
         info == calls[t].info
     IN  IF ok /\ ~notNullViolated(info)
         THEN /\ orders' = orders \cup {orderRow(k.sid, k.total, info)}
              /\ nextOrderId' = nextOrderId + 1
              /\ calls' = [calls EXCEPT ![t] =
                   [k EXCEPT !.pc = "items", !.order = nextOrderId]]
         ELSE /\ UNCHANGED <<orders, nextOrderId>>
              /\ calls' = [calls EXCEPT ![t] = Thrown(k, "header")]
  /\ UNCHANGED <<app, products, cascaded, storage, nextSid, price, cart_items,
                 nextCartId, order_items, cartItems, left, resolved, created,
                 hist>>

\* The insert of the order items, which the store rejects when an item names
\* a product that has no row (order_items.product_id REFERENCES products(id)).
\* The insert of an empty array writes no row and succeeds.
createOrderItems(t, ok) ==
  /\ calls[t].op = "createOrder" /\ calls[t].pc = "items"
  /\ Answer(ok)
  /\ LET k == calls[t]
     IN  IF ok /\ \A i \in k.items : productExists(i.product_id)
         THEN /\ order_items' = order_items \cup orderItemsOf(k.order, k.items)
              /\ calls' = [calls EXCEPT ![t] = [k EXCEPT !.pc = "inserted"]]
         ELSE /\ UNCHANGED order_items
              /\ calls' = [calls EXCEPT ![t] = Thrown(k, "items")]
  /\ UNCHANGED <<app, products, cascaded, storage, nextSid, price, cart_items,
                 nextCartId, orders, nextOrderId, cartItems, left, resolved,
                 created, hist>>

\* The answer of the items insert arrives and createOrder calls clearCart(),
\* which resolves the session id and sends its delete.
createOrderClearCart(t) ==
  /\ calls[t].op = "createOrder" /\ calls[t].pc = "inserted"
  /\ LET k == calls[t]
     IN  /\ CartResolve(k.client)
         /\ calls' = [calls EXCEPT ![t] =
              [k EXCEPT !.pc = "clear", !.csid = cartGetSessionId(k.client)]]
  /\ UNCHANGED <<app, store, cartItems, left, faulted, created, hist>>

\* clearCart()'s delete inside createOrder, executed by the store; when it
\* fails its error leaves createOrder.
createOrderClear(t, ok) ==
  /\ calls[t].op = "createOrder" /\ calls[t].pc = "clear"
  /\ Answer(ok)
  /\ LET k == calls[t]
     IN  IF ok
         THEN /\ cart_items' = deleteBySession(k.csid)
              /\ calls' = [calls EXCEPT ![t] =
                   [k EXCEPT !.pc = "return",
                      !.changed = (deleteBySession(k.csid) # cart_items)]]
         ELSE /\ UNCHANGED cart_items
              /\ calls' = [calls EXCEPT ![t] = Thrown(k, "clear")]
  /\ UNCHANGED <<app, products, cascaded, storage, nextSid, price, nextCartId,
                 orders, order_items, nextOrderId, cartItems, left, resolved,
                 created, hist>>

\* The answer of the delete arrives: createOrder returns the order.  In
\* handleCheckout the UI's cart is emptied (setCartItems([])), the checkout
\* form closed and 'Order placed successfully!' alerted.
createOrderReturn(t) ==
  /\ calls[t].op = "createOrder" /\ calls[t].pc = "return"
  /\ LET k == calls[t]
     IN  /\ cartItems' = IF k.ui THEN [cartItems EXCEPT ![k.client] = {}]
                         ELSE cartItems
         /\ created' = [created EXCEPT ![k.client] = @ \cup {k.order}]
         /\ calls' = [calls EXCEPT ![t] =
              [k EXCEPT !.pc = "done", !.outcome = "returned",
                 !.alert = IF k.ui THEN "success" ELSE "none"]]
         /\ app' = IF k.ui THEN [app EXCEPT ![k.client].isCheckoutOpen = FALSE]
                   ELSE app
  /\ UNCHANGED <<storage, nextSid, store, left, faulted, resolved, hist>>

----------------------------------------------------------------------------
\* The program: App in the browser of a shopper, and any call of the two
\* modules made directly by any client; the store steps of a call interleave
\* with the steps of at most one other call, and the store may answer a call
\* with an error.

Next ==
  \/ \E c \in Shoppers : mount(c)
  \/ \E c \in Shoppers, ok \in BOOLEAN : loadDataQuery(c, ok)
  \/ \E c \in Shoppers : loadDataDeliver(c)
  \/ \E t \in Tasks, c \in Shoppers, p \in Products : handleAddToCart(t, c, p)
  \/ \E t \in Tasks, c \in Shoppers :
       \E i \in cartItems[c] : \E q \in ButtonQtys(i) :
         handleUpdateQuantity(t, c, i, q)
  \/ \E t \in Tasks, c \in Shoppers :
       \E i \in cartItems[c] : handleRemoveItem(t, c, i)
  \/ \E t \in Tasks, ok \in BOOLEAN : refreshQuery(t, ok)
  \/ \E t \in Tasks : refreshDeliver(t)
  \/ \E c \in Shoppers : onCheckout(c)
  \/ \E c \in Shoppers : onClose(c)
  \/ \E t \in Tasks, c \in Shoppers : handleCheckout(t, c)
  \/ \E t \in Tasks, c \in Clients, p \in Products, q \in AnyQtys :
       addToCart(t, c, p, q)
  \/ \E t \in Tasks, c \in Clients, id \in CartIds, q \in UpdQtys :
       updateCartItemQuantity(t, c, id, q)
  \/ \E t \in Tasks, c \in Clients, id \in CartIds : removeFromCart(t, c, id)
  \/ \E t \in Tasks, c \in Clients : clearCart(t, c)
  \/ \E t \in Tasks, ok \in BOOLEAN : addToCartLookup(t, ok)
  \/ \E t \in Tasks, ok \in BOOLEAN : addToCartWrite(t, ok)
  \/ \E t \in Tasks, ok \in BOOLEAN : updateCartItemQuantityStore(t, ok)
  \/ \E t \in Tasks, ok \in BOOLEAN : removeFromCartStore(t, ok)
  \/ \E t \in Tasks, ok \in BOOLEAN : clearCartStore(t, ok)
  \/ \E t \in Tasks, c \in Clients : getCartItemsCall(t, c)
  \/ \E t \in Tasks, ok \in BOOLEAN : getCartItemsStore(t, ok)
  \/ \E t \in Tasks, c \in Clients : getOrders(t, c)
  \/ \E t \in Tasks, ok \in BOOLEAN : getOrdersStore(t, ok)
  \/ \E t \in Tasks, c \in Clients, id \in OrderIdArgs : getOrderById(t, c, id)
  \/ \E t \in Tasks, ok \in BOOLEAN : getOrderByIdStore(t, ok)
  \/ \E t \in Tasks, c \in Clients, info \in OrderDatas :
       \E items \in CartArgs(c) : createOrder(t, c, items, info)
  \/ \E t \in Tasks, ok \in BOOLEAN : createOrderHeader(t, ok)
  \/ \E t \in Tasks, ok \in BOOLEAN : createOrderItems(t, ok)
  \/ \E t \in Tasks : createOrderClearCart(t)
  \/ \E t \in Tasks, ok \in BOOLEAN : createOrderClear(t, ok)
  \/ \E t \in Tasks : createOrderReturn(t)

Init == Start(MaxOps)

Spec == Init /\ [][Next]_vars

----------------------------------------------------------------------------
\* The cart manager alone: the calls of the cart module.

NextCart ==
  \/ \E t \in Tasks, c \in Clients, p \in Products, q \in AddQtys :
       addToCart(t, c, p, q)
  \/ \E t \in Tasks, c \in Clients, id \in CartIds, q \in UpdQtys :
       updateCartItemQuantity(t, c, id, q)
  \/ \E t \in Tasks, c \in Clients, id \in CartIds : removeFromCart(t, c, id)
  \/ \E t \in Tasks, c \in Clients : clearCart(t, c)
  \/ \E t \in Tasks, ok \in BOOLEAN : addToCartLookup(t, ok)
  \/ \E t \in Tasks, ok \in BOOLEAN : addToCartWrite(t, ok)
  \/ \E t \in Tasks, ok \in BOOLEAN : updateCartItemQuantityStore(t, ok)
  \/ \E t \in Tasks, ok \in BOOLEAN : removeFromCartStore(t, ok)
  \/ \E t \in Tasks, ok \in BOOLEAN : clearCartStore(t, ok)

InitCart == Start(MaxCartOps)

SpecCart == InitCart /\ [][NextCart]_vars

----------------------------------------------------------------------------
\* The checkout flow through the UI on a store that answers every call: App
\* is mounted, its handlers fill the cart and read it into the UI, prices
\* change, orders are placed, while another client fills a cart of its own.

NextCheckout ==
  \/ \E t \in Tasks, c \in Clients \ Shoppers, p \in Products :
       addToCart(t, c, p, 1)
  \/ \E c \in Shoppers : mount(c)
  \/ \E c \in Shoppers : loadDataQuery(c, TRUE)
  \/ \E c \in Shoppers : loadDataDeliver(c)
  \/ \E t \in Tasks, c \in Shoppers, p \in Products : handleAddToCart(t, c, p)
  \/ \E t \in Tasks : addToCartLookup(t, TRUE)
  \/ \E t \in Tasks : addToCartWrite(t, TRUE)
  \/ \E t \in Tasks : refreshQuery(t, TRUE)
  \/ \E t \in Tasks : refreshDeliver(t)
  \/ \E p \in Products, v \in Prices : setPrice(p, v)
  \/ \E c \in Shoppers : onCheckout(c)
  \/ \E c \in Shoppers : onClose(c)
  \/ \E t \in Tasks, c \in Shoppers : handleCheckout(t, c)
  \/ \E t \in Tasks : createOrderHeader(t, TRUE)
  \/ \E t \in Tasks : createOrderItems(t, TRUE)
  \/ \E t \in Tasks : createOrderClearCart(t)
  \/ \E t \in Tasks : createOrderClear(t, TRUE)
  \/ \E t \in Tasks : createOrderReturn(t)

InitCheckout == Start(MaxCheckoutOps)

SpecCheckout == InitCheckout /\ [][NextCheckout]_vars

----------------------------------------------------------------------------
\* The catalogue shrinking under the checkout flow, on a store that answers
\* every call: products are deleted while the carts of the shopper and of
\* another client hold them and orders name them.

NextCatalog ==
  \/ \E t \in Tasks, c \in Clients \ Shoppers, p \in Products :
       addToCart(t, c, p, 1)
  \/ \E c \in Shoppers : mount(c)
  \/ \E c \in Shoppers : loadDataQuery(c, TRUE)
  \/ \E c \in Shoppers : loadDataDeliver(c)
  \/ \E t \in Tasks, c \in Shoppers, p \in Products : handleAddToCart(t, c, p)
  \/ \E t \in Tasks : addToCartLookup(t, TRUE)
  \/ \E t \in Tasks : addToCartWrite(t, TRUE)
  \/ \E t \in Tasks : refreshQuery(t, TRUE)
  \/ \E t \in Tasks : refreshDeliver(t)
  \/ \E p \in Products : deleteProduct(p)
  \/ \E c \in Shoppers : onCheckout(c)
  \/ \E c \in Shoppers : onClose(c)
  \/ \E t \in Tasks, c \in Shoppers : handleCheckout(t, c)
  \/ \E t \in Tasks : createOrderHeader(t, TRUE)
  \/ \E t \in Tasks : createOrderItems(t, TRUE)
  \/ \E t \in Tasks : createOrderClearCart(t)
  \/ \E t \in Tasks : createOrderClear(t, TRUE)
  \/ \E t \in Tasks : createOrderReturn(t)

InitCatalog == Start(MaxCatalogOps)

SpecCatalog == InitCatalog /\ [][NextCatalog]_vars

----------------------------------------------------------------------------
\* The order placer: carts are filled through the UI, orders are placed and
\* read back, and the store may answer a call with an error.

NextOrders ==
  \/ \E c \in Shoppers : mount(c)
  \/ \E c \in Shoppers, ok \in BOOLEAN : loadDataQuery(c, ok)
  \/ \E c \in Shoppers : loadDataDeliver(c)
  \/ \E t \in Tasks, c \in Shoppers, p \in Products : handleAddToCart(t, c, p)
  \/ \E t \in Tasks, ok \in BOOLEAN : addToCartLookup(t, ok)
  \/ \E t \in Tasks, ok \in BOOLEAN : addToCartWrite(t, ok)
  \/ \E t \in Tasks, ok \in BOOLEAN : refreshQuery(t, ok)
  \/ \E t \in Tasks : refreshDeliver(t)
  \/ \E c \in Shoppers : onCheckout(c)
  \/ \E c \in Shoppers : onClose(c)
  \/ \E t \in Tasks, c \in Shoppers : handleCheckout(t, c)
  \/ \E t \in Tasks, ok \in BOOLEAN : createOrderHeader(t, ok)
  \/ \E t \in Tasks, ok \in BOOLEAN : createOrderItems(t, ok)
  \/ \E t \in Tasks : createOrderClearCart(t)
  \/ \E t \in Tasks, ok \in BOOLEAN : createOrderClear(t, ok)
  \/ \E t \in Tasks : createOrderReturn(t)
  \/ \E t \in Tasks, c \in Shoppers, id \in OrderIdArgs : getOrderById(t, c, id)
  \/ \E t \in Tasks, ok \in BOOLEAN : getOrderByIdStore(t, ok)

InitOrders == Start(MaxOrderOps)

SpecOrders == InitOrders /\ [][NextOrders]_vars

----------------------------------------------------------------------------
\* The UI: the four handlers of App, each acting on the cart the UI shows.
\* The answer to a handler's re-query may arrive after later steps of other
\* handlers.

NextUi ==
  \/ \E c \in Clients : mount(c)
  \/ \E c \in Clients, ok \in BOOLEAN : loadDataQuery(c, ok)
  \/ \E c \in Clients : loadDataDeliver(c)
  \/ \E t \in Tasks, c \in Clients, p \in Products : handleAddToCart(t, c, p)
  \/ \E t \in Tasks, c \in Clients :
       \E i \in cartItems[c] : \E q \in ButtonQtys(i) :
         handleUpdateQuantity(t, c, i, q)
  \/ \E t \in Tasks, c \in Clients :
       \E i \in cartItems[c] : handleRemoveItem(t, c, i)
  \/ \E t \in Tasks, ok \in BOOLEAN : addToCartLookup(t, ok)
  \/ \E t \in Tasks, ok \in BOOLEAN : addToCartWrite(t, ok)
  \/ \E t \in Tasks, ok \in BOOLEAN : updateCartItemQuantityStore(t, ok)
  \/ \E t \in Tasks, ok \in BOOLEAN : removeFromCartStore(t, ok)
  \/ \E t \in Tasks, ok \in BOOLEAN : refreshQuery(t, ok)
  \/ \E t \in Tasks : refreshDeliver(t)
  \/ \E c \in Clients : onCheckout(c)
  \/ \E c \in Clients : onClose(c)
  \/ \E t \in Tasks, c \in Clients : handleCheckout(t, c)
  \/ \E t \in Tasks, ok \in BOOLEAN : createOrderHeader(t, ok)
  \/ \E t \in Tasks, ok \in BOOLEAN : createOrderItems(t, ok)
  \/ \E t \in Tasks : createOrderClearCart(t)
  \/ \E t \in Tasks, ok \in BOOLEAN : createOrderClear(t, ok)
  \/ \E t \in Tasks : createOrderReturn(t)

InitUi == Start(MaxUiOps)

SpecUi == InitUi /\ [][NextUi]_vars

----------------------------------------------------------------------------
\* Serial calls of addToCart on a store that answers every call: a call is
\* started only when no other is in flight.

NoneInFlight == \A t \in Tasks : Free(t)

addToCartReturn(t) ==
  /\ addToCartStore(t, TRUE)
  /\ LET k == calls[t]
     IN  hist' = [hist EXCEPT ![k.client][k.product] =
                    [n |-> @.n + 1, sum |-> @.sum + k.quantity]]

NextSerial ==
  \/ \E t \in Tasks, c \in Clients, p \in Products, q \in AddQtys :
       NoneInFlight /\ addToCart(t, c, p, q)
  \/ \E t \in Tasks : addToCartLookup(t, TRUE)
  \/ \E t \in Tasks : addToCartReturn(t)

InitSerial == Start(MaxSerialOps)

SpecSerial == InitSerial /\ [][NextSerial]_vars

----------------------------------------------------------------------------
\* Concurrent calls of addToCart on a store that answers every call: as the
\* serial calls, but a call may start while another is in flight.

NextAdds ==
  \/ \E t \in Tasks, c \in Clients, p \in Products, q \in AddQtys :
       addToCart(t, c, p, q)
  \/ \E t \in Tasks : addToCartLookup(t, TRUE)
  \/ \E t \in Tasks : addToCartReturn(t)

InitAdds == Start(MaxAddOps)

SpecAdds == InitAdds /\ [][NextAdds]_vars

----------------------------------------------------------------------------
\* Properties

Done(t, op) == calls[t].op = op /\ calls[t].pc = "done"

Returned(t, op) == Done(t, op) /\ calls[t].outcome = "returned"

\* The cart rows of the session client c has persisted, for product p.
RowsOf(c, p) == cartRowsFor(storage[c], p)

\* C1: after serial addToCart(p, q) calls of one session for one product,
\* starting with no row for it, the store holds exactly one row for
\* (session, p), and its quantity is the sum of all the q.
C1_SerialAddsAccumulate ==
  \A c \in Clients, p \in Products :
    hist[c][p].n > 0 =>
      /\ Cardinality(RowsOf(c, p)) = 1
      /\ \A r \in RowsOf(c, p) : r.quantity = hist[c][p].sum

\* Two calls with different q have completed for one (session, product).
C1_Witness ==
  \E c \in Clients, p \in Products :
    /\ NoneInFlight
    /\ hist[c][p].n = 2 /\ hist[c][p].sum = 3
    /\ \E r \in RowsOf(c, p) : r.quantity = 3

\* C2: in every state reached without a store error, cart_items holds at
\* most one row per (session, product) pair.
C2_OneRowPerSessionProduct ==
  ~faulted =>
    \A r1, r2 \in cart_items :
      (r1.session_id = r2.session_id /\ r1.product_id = r2.product_id) => r1 = r2

\* C3: once createOrder, called with a non-empty cart, has returned or thrown,
\* its order header exists iff all of its order items exist.
C3_OrderAllOrNothing ==
  \A t \in Tasks :
    (Done(t, "createOrder") /\ calls[t].items # {}) =>
      ((\E o \in orders : o.id = calls[t].order)
         <=> (calls[t].order # 0
              /\ orderItemsOf(calls[t].order, calls[t].items) \subseteq order_items))

\* The sum of quantity times the price joined to the item when the cart was
\* read.
RECURSIVE SnapshotSum(_)
SnapshotSum(items) ==
  IF items = {} THEN 0
  ELSE LET i == CHOOSE x \in items : TRUE
       IN  i.quantity * i.price + SnapshotSum(items \ {i})

\* C4: the total_amount createOrder writes is the sum of quantity times the
\* price joined to each item when the cart was read, and each order item
\* carries that price, whatever the catalogue price has become.
C4_TotalOfSnapshotPrices ==
  \A t \in Tasks :
    (calls[t].op = "createOrder" /\ calls[t].order # 0) =>
      /\ \A o \in orders :
           o.id = calls[t].order => o.total_amount = SnapshotSum(calls[t].items)
      /\ calls[t].pc \in {"inserted", "clear", "return", "done"} =>
           \A i \in calls[t].items :
             \E oi \in order_items :
               /\ oi.order_id = calls[t].order /\ oi.line = i.id
               /\ oi.product_id = i.product_id /\ oi.quantity = i.quantity
               /\ oi.price = i.price

\* An order of two lines was placed after the catalogue price of one of its
\* products had changed.
C4_Witness ==
  \E t \in Tasks :
    /\ Returned(t, "createOrder")
    /\ Cardinality(calls[t].items) = 2
    /\ \E i \in calls[t].items : price[i.product_id] # i.price
    /\ \E o \in orders : o.id = calls[t].order /\ o.total_amount = 15

\* The step in which the store executes the delete of createOrder's
\* clearCart() call.
CreateOrderClears(t) ==
  /\ calls[t].op = "createOrder" /\ calls[t].pc = "clear"
  /\ calls'[t].pc = "return"

\* The step in which the store executes the delete of a clearCart() call of
\* slot t (a call of its own, or the one createOrder makes).
ClearCartReturns(t) ==
  \/ /\ calls[t].op = "clearCart" /\ calls[t].pc = "store"
     /\ calls'[t].outcome = "returned"
  \/ CreateOrderClears(t)

\* C5: clearCart() of session S deletes every cart row of S and no other row.
C5_ClearCartOwnRowsOnly ==
  [][\A t \in Tasks :
       ClearCartReturns(t) =>
         LET S == storage'[calls'[t].client]
         IN  /\ \A r \in cart_items' : r.session_id # S
             /\ \A r \in cart_items : r.session_id # S => r \in cart_items'
             /\ cart_items' \subseteq cart_items]_vars

\* clearCart() has deleted rows while another session held rows.
C5_Witness ==
  \E t \in Tasks :
    /\ Returned(t, "clearCart") /\ calls[t].changed
    /\ \E r \in cart_items : r.session_id # calls[t].csid

\* C6: after updateCartItemQuantity(id, q) with q <= 0 has returned, no row
\* has that id.
C6_NonPositiveQuantityDeletes ==
  \A t \in Tasks :
    (Returned(t, "updateCartItemQuantity") /\ calls[t].quantity <= 0) =>
      \A r \in cart_items : r.id # calls[t].item

\* updateCartItemQuantity(id, 0) has deleted the row.
C6_Witness ==
  \E t \in Tasks :
    /\ Returned(t, "updateCartItemQuantity")
    /\ calls[t].quantity = 0 /\ calls[t].changed

\* C7: when only the cart-clear step of createOrder fails, createOrder
\* returns the order and the checkout handler reports success.
C7_ClearFailureNotFatal ==
  \A t \in Tasks :
    (Done(t, "createOrder") /\ calls[t].failedAt = "clear") =>
      /\ calls[t].outcome = "returned"
      /\ calls[t].ui => calls[t].alert = "success"

MutatingCartOps ==
  {"addToCart", "updateCartItemQuantity", "removeFromCart", "clearCart"}

\* C8: a mutating cart operation one of whose store calls returned an error
\* has thrown and has changed nothing in cart_items.
C8_StoreErrorPropagates ==
  \A t \in Tasks :
    (calls[t].pc = "done" /\ calls[t].op \in MutatingCartOps /\ calls[t].err) =>
      (calls[t].outcome = "threw" /\ ~calls[t].changed)

\* C9: all the calls of one client resolve the same session id.
C9_SessionIdStable ==
  \A c \in Clients : Cardinality(resolved[c]) <= 1

Listed(t) == {calls[t].result[i] : i \in 1 .. Len(calls[t].result)}

\* C10: getOrders() lists orders of the caller's session only, newest first,
\* and among them every order createOrder had returned to this client.
C10_GetOrdersListsOwnOrders ==
  \A t \in Tasks :
    Returned(t, "getOrders") =>
      /\ \A o \in orders : o.id \in Listed(t) => o.session_id = calls[t].sid
      /\ \A i, j \in 1 .. Len(calls[t].result) :
           i < j => calls[t].result[i] > calls[t].result[j]
      /\ calls[t].mine \subseteq Listed(t)

\* The step in which createOrder of slot t returns its order.
CreateOrderReturns(t) ==
  /\ calls[t].op = "createOrder" /\ calls[t].pc = "return"
  /\ calls'[t].outcome = "returned"

\* C11: when createOrder(cartItems, info) returns and no other call of its
\* client has been in flight since it started, its order has exactly one
\* order item per element of cartItems, with that element's product id,
\* quantity and joined price, and the calling session has no cart row left.
C11_OrderMirrorsCart ==
  [][\A t \in Tasks :
       (CreateOrderReturns(t) /\ calls[t].alone) =>
         LET k == calls'[t]
             lines == {oi \in order_items' : oi.order_id = k.order}
         IN  /\ Cardinality(lines) = Cardinality(k.items)
             /\ \A i \in k.items :
                  \E oi \in lines :
                    /\ oi.line = i.id /\ oi.product_id = i.product_id
                    /\ oi.quantity = i.quantity /\ oi.price = i.price
             /\ \A r \in cart_items' : r.session_id # storage'[k.client]]_vars

\* createOrder, alone among the calls of its client, has returned an order
\* for a cart that held a line of quantity 2, and its clear step has deleted
\* the session's rows.
C11_Witness ==
  \E t \in Tasks :
    /\ Returned(t, "createOrder") /\ calls[t].changed /\ calls[t].alone
    /\ \E i \in calls[t].items : i.quantity = 2
    /\ \E oi \in order_items : oi.order_id = calls[t].order /\ oi.quantity = 2
    /\ \A r \in cart_items : r.session_id # storage[calls[t].client]

\* The step in which the row of product p is deleted from products.
ProductDeleted(p) == p \in products /\ p \notin products'

\* C12: the delete of a product removes every cart row that references it
\* and no other, and nulls the product reference of every order item that
\* references it; each such order item keeps its quantity and price, no order
\* item is removed, and every order keeps its total_amount.
C12_ProductDeleteCascades ==
  [][\A p \in Products :
       ProductDeleted(p) =>
         /\ \A r \in cart_items' : r.product_id # p
         /\ \A r \in cart_items : r.product_id # p => r \in cart_items'
         /\ cart_items' \subseteq cart_items
         /\ \A oi \in order_items :
              IF oi.product_id = p
              THEN \E n \in order_items' :
                     /\ n.order_id = oi.order_id /\ n.line = oi.line
                     /\ n.product_id = Null
                     /\ n.quantity = oi.quantity /\ n.price = oi.price
              ELSE oi \in order_items'
         /\ Cardinality(order_items') = Cardinality(order_items)
         /\ orders' = orders]_vars

\* A product was deleted while a cart row and an order item referenced it:
\* the cart row is gone and the order item is kept without its product.
C12_Witness ==
  \E p \in Products \ products :
    /\ cascaded # {}
    /\ \A r \in cart_items : r.product_id # p
    /\ \E oi \in order_items :
         /\ oi.product_id = Null /\ oi.quantity >= 1 /\ oi.price = price[p]
         /\ \E o \in orders : o.id = oi.order_id /\ o.total_amount >= oi.price

\* C13: every row of cart_items has quantity >= 1, whatever integers are
\* passed to addToCart and updateCartItemQuantity.
C13_QuantityAtLeastOne == \A r \in cart_items : r.quantity >= 1

CustomerFields == {"customer_name", "customer_email", "shipping_address"}

\* C14: createOrder called with an empty or missing customer_name,
\* customer_email or shipping_address creates no order: every row of orders
\* holds a non-empty text in each of the three columns.
C14_NoOrderWithoutCustomerData ==
  \A o \in orders : \A f \in CustomerFields : o[f] \notin {"", Null}

\* C15: a step of a cart operation of a client changes or deletes only cart
\* rows of that client's session.
C15_CartRowsIsolated ==
  [][\A t \in Tasks :
       (calls'[t] # calls[t] /\ calls'[t].op \in MutatingCartOps) =>
         \A r \in cart_items \ cart_items' :
           r.session_id = storage'[calls'[t].client]]_vars

\* C16: getOrderById(id) throws exactly when the store call itself failed;
\* otherwise it returns null when no order has the id, and the order when
\* one has.
C16_GetOrderByIdAbsentIsNull ==
  \A t \in Tasks :
    Done(t, "getOrderById") =>
      /\ calls[t].outcome = "threw" <=> calls[t].err
      /\ (~calls[t].err /\ calls[t].existingId = 0) =>
           (calls[t].outcome = "returned" /\ calls[t].result = <<>>)
      /\ (~calls[t].err /\ calls[t].existingId # 0) =>
           calls[t].result = <<calls[t].item>>

\* getOrderById has returned null for an id no order has, while orders
\* exist.
C16_Witness ==
  \E t \in Tasks :
    /\ Returned(t, "getOrderById")
    /\ calls[t].existingId = 0 /\ calls[t].result = <<>>
    /\ orders # {}
    /\ \A o \in orders : o.id # calls[t].item

\* C17: a createOrder whose header insert or items insert fails throws, and
\* that step leaves cart_items as it was; the delete of the cart is answered
\* only when the order header and every order item are stored.
C17_ClearOnlyAfterInserts ==
  [][\A t \in Tasks :
       calls[t].op = "createOrder" =>
         /\ (calls[t].pc \in {"header", "items"} /\ calls'[t].pc = "done") =>
              calls'[t].outcome = "threw"
         /\ (calls[t].pc \in {"header", "items"} /\ calls'[t] # calls[t]) =>
              cart_items' = cart_items
         /\ (calls[t].pc = "clear" /\ calls'[t] # calls[t]) =>
              /\ \E o \in orders : o.id = calls[t].order
              /\ orderItemsOf(calls[t].order, calls[t].items) \subseteq order_items]_vars

\* createOrder has thrown at its items insert, and the cart rows it was
\* called with are still stored.
C17_Witness ==
  \E t \in Tasks :
    /\ Done(t, "createOrder") /\ calls[t].outcome = "threw"
    /\ calls[t].failedAt = "items" /\ calls[t].items # {}
    /\ \A i \in calls[t].items : \E r \in cart_items : r.id = i.id

\* The step in which updateCartItemQuantity(id, q) of slot t, q > 0, returns.
UpdateReturns(t) ==
  /\ calls[t].op = "updateCartItemQuantity" /\ calls[t].pc = "store"
  /\ calls'[t].outcome = "returned" /\ calls'[t].quantity > 0

\* C18: updateCartItemQuantity(id, q) with q > 0 sets the quantity of the row
\* with that id to q, keeps the other fields of that row, and leaves every
\* other row of cart_items as it was.
C18_UpdateSetsQuantity ==
  [][\A t \in Tasks :
       UpdateReturns(t) =>
         /\ \A r \in cart_items :
              IF r.id = calls'[t].item
              THEN [r EXCEPT !.quantity = calls'[t].quantity] \in cart_items'
              ELSE r \in cart_items'
         /\ Cardinality(cart_items') = Cardinality(cart_items)]_vars

\* updateCartItemQuantity(id, 2) has changed a row while another row was
\* stored.
C18_Witness ==
  \E t \in Tasks :
    /\ Returned(t, "updateCartItemQuantity")
    /\ calls[t].quantity = 2 /\ calls[t].changed
    /\ \E r \in cart_items : r.id = calls[t].item /\ r.quantity = 2
    /\ \E r \in cart_items : r.id # calls[t].item

\* The cart rows of a session as the UI holds them, without the joined
\* product.
StoredCart(sid) ==
  {[id |-> r.id, product_id |-> r.product_id, quantity |-> r.quantity] :
     r \in {x \in cart_items : x.session_id = sid}}

ShownCart(c) ==
  {[id |-> i.id, product_id |-> i.product_id, quantity |-> i.quantity] :
     i \in cartItems[c]}

\* C19: when no handler is in flight and no store call has failed, the cart
\* the rendered UI of each client shows is the set of cart rows the store
\* holds for its session.
C19_UiCartIsStoreCart ==
  (NoneInFlight /\ ~faulted /\ \A t \in Tasks : ~calls[t].err) =>
    \A c \in Clients : ready(c) => ShownCart(c) = StoredCart(storage[c])

\* The places at which the operation behind a handler fails.
HandlerFailures == {"write", "store", "refresh", "header", "items", "clear"}

\* C20: the step in which the operation behind a handler fails shows the
\* user a notification and leaves the cart of the UI as it was.
C20_FailureNotifiesKeepsCart ==
  [][\A t \in Tasks :
       (/\ calls'[t] # calls[t] /\ calls'[t].pc = "done"
        /\ calls'[t].failedAt \in HandlerFailures) =>
         (calls'[t].alert = "failed" /\ cartItems' = cartItems)]_vars

\* C21: every order row is written with status 'pending'; no step changes or
\* removes an order row, and no step changes the quantity or the price of an
\* order item or removes it.
C21_OrdersWriteOnce ==
  [][/\ \A o \in orders' : o.status = "pending"
     /\ orders \subseteq orders'
     /\ \A oi \in order_items :
          \E n \in order_items' :
            /\ n.order_id = oi.order_id /\ n.line = oi.line
            /\ n.quantity = oi.quantity /\ n.price = oi.price]_vars

\* An order with its items is stored, and an addToCart call made after the
\* cart was ordered has written a row.
C21_Witness ==
  \E t \in Tasks, oi \in order_items, r \in cart_items :
    /\ Returned(t, "addToCart") /\ calls[t].changed
    /\ r.id > oi.line
    /\ \E o \in orders : o.id = oi.order_id /\ o.status = "pending"

\* The sum of the quantities of a set of cart rows.
RECURSIVE QuantitySum(_)
QuantitySum(rows) ==
  IF rows = {} THEN 0
  ELSE LET r == CHOOSE x \in rows : TRUE
       IN  r.quantity + QuantitySum(rows \ {r})

\* C22: when the addToCart calls of a session for a product have all
\* returned, however they interleaved, the quantity the store holds for
\* (session, product) is the sum of the quantities they were called with.
C22_NoQuantityLost ==
  NoneInFlight =>
    \A c \in Clients, p \in Products :
      hist[c][p].n > 0 => QuantitySum(RowsOf(c, p)) = hist[c][p].sum

\* C23: every cart row the clear step of createOrder deletes has an order
\* item of the created order with its product and its quantity.
C23_ClearsOnlyWhatWasOrdered ==
  [][\A t \in Tasks :
       CreateOrderClears(t) =>
         \A r \in cart_items \ cart_items' :
           \E oi \in order_items' :
             /\ oi.order_id = calls'[t].order
             /\ oi.product_id = r.product_id /\ oi.quantity = r.quantity]_vars

\* C24: a cart line is ordered at most once: no two orders hold an order
\* item made from the same cart row.
C24_CartOrderedOnce ==
  \A a, b \in order_items : a.line = b.line => a.order_id = b.order_id

\* C25: every order createOrder has returned holds at least one order item.
C25_ReturnedOrderHasItems ==
  \A t \in Tasks :
    Returned(t, "createOrder") =>
      \E oi \in order_items : oi.order_id = calls[t].order

====
